---- MODULE Spec2Model ----
(***************************************************************************)
(* Dispatch loop and conversation store of the VNASelf backend.            *)
(*                                                                         *)
(* MultiAgentSystem.process_message (backend/core/multi_agent_system.py)   *)
(* saves the user message, runs the supervisor/tools graph built by        *)
(* _build_graph on the thread's checkpointed state, labels the answer and  *)
(* saves the assistant message.  Two clients may run turns concurrently.   *)
(* The graph runtime (LangGraph StateGraph, ToolNode, tools_condition,     *)
(* MemorySaver) is modelled by its documented behaviour at the places      *)
(* where the source calls it.                                              *)
(***************************************************************************)
EXTENDS Integers, Sequences, FiniteSets, TLC

(***************************************************************************)
(* Bounds of the model                                                     *)
(***************************************************************************)
\* total number of process_message calls in one run
MaxTurns == 2
\* Oracle replies of a turn that are chosen freely; later replies either
\* repeat the previous operation batch (only the last call of a run whose
\* calls never ran concurrently gets such replies); the reply after the free
\* ones may also be a final answer or a failure
MaxFree == 1

(***************************************************************************)
(* Program constants                                                       *)
(***************************************************************************)
\* recursion_limit of graph.ainvoke: the config passed holds only
\* "configurable", so the runtime's default applies
RecursionLimit == 25

Procs == {"p1", "p2"}

\* thread ids are strings, kept as character sequences so that the file
\* name sanitisation can be computed
T1 == <<"a", "/", "b">>
T2 == <<"a", "_", "b">>
T3 == <<"c">>
ThreadIds == {T1, T2, T3}

\* thread ids each client sends; the first call of a run comes from p1
ClientThreads(p) == IF p = "p1" THEN {T1} ELSE ThreadIds

\* operations bound to the supervisor model
RegisteredTools == {"create_event", "check_conflicts", "add_expense"}

\* operation batches the Oracle may request in one reply
Batches == { <<"add_expense">>, <<"create_event", "no_such_tool">> }

\* final answers the Oracle may give
Answers == {"done", "event saved"}

GenericError == "Error processing message"

VARIABLES
    files,        \* per-conversation storage: file name -> list of messages
    logs,         \* rows of the logs table, in insertion order
    checkpoint,   \* MemorySaver: thread id -> messages of the graph state
    pc,           \* position of each client's process_message call
    tid,          \* thread id of the call
    turn,         \* number of the call (stands for the message text)
    loaded,       \* messages read from the file by the save in progress
    gstate,       \* messages of the graph run in progress
    step,         \* supersteps executed by the graph run
    nOracle,      \* Oracle invocations of the call
    nEnter,       \* entries of the call into the supervisor node
    finished,     \* indices of the batch's calls, in completion order
    outcome,      \* call index -> status of the completed call
    resp,         \* what the caller of the endpoint receives
    cause,        \* why the call ended abnormally
    base,         \* file content when the call started
    gbase,        \* checkpoint content when the graph run started
    nBatches,     \* operation batches executed by the call
    nCalls,       \* operation calls executed by the call
    appended,     \* thread id -> messages whose save completed
    overlap,      \* two calls on one thread id have been in flight together
    concurrent,   \* two calls have been in flight together
    nTurns,       \* calls started so far
    hist,         \* what the latest history request returned
    delres,       \* what the latest delete_thread call returned
    events,       \* the events of the calendar (Event Store)
    now,          \* current time of the reference timezone
    calres        \* what the latest calendar operation returned

vars == <<files, logs, checkpoint, pc, tid, turn, loaded, gstate, step,
          nOracle, nEnter, finished, outcome, resp, cause, base, gbase,
          nBatches, nCalls, appended, overlap, concurrent, nTurns,
          hist, delres, events, now, calres>>

\* the variables of the history, deletion and calendar operations
apiVars == <<hist, delres, events, now, calres>>

(***************************************************************************)
(* Per-conversation storage                                                *)
(***************************************************************************)
\* safe_thread_id = thread_id.replace('/', '_').replace('\\', '_')
SanitizeChar(c) == IF c \in {"/", "\\"} THEN "_" ELSE c

_get_conversation_file_path(t) == [i \in DOMAIN t |-> SanitizeChar(t[i])]

FileNames == { _get_conversation_file_path(t) : t \in ThreadIds }

\* [] when the file does not exist, else its content
_load_messages_from_file(f) == IF f \in DOMAIN files THEN files[f] ELSE <<>>

\* the file is created or overwritten with the given list
_save_messages_to_file(f, msgs) ==
    [g \in (DOMAIN files) \cup {f} |-> IF g = f THEN msgs ELSE files[g]]

\* new_message of save_message; turn stands for the text of the user message
StoreMessage(msgs, t, type, n, text, agent, ts) ==
    [id |-> Len(msgs) + 1, thread_id |-> t, message_type |-> type,
     turn |-> n, content |-> text, agent_name |-> agent, timestamp |-> ts]

\* row of the logs table inserted by LogsService.save_message
LogRow(t, type, n, text, agent, ts) ==
    [thread_id |-> t, message_type |-> type, turn |-> n, content |-> text,
     agent_name |-> agent, timestamp |-> ts, is_deleted |-> FALSE]

\* timestamps of a call of process_message: the clock is read once, the
\* user message carries the reading and the assistant message the reading
\* plus one; the reading of the n-th call is taken as 2n
current_timestamp(n) == 2 * n
Timestamp(n, type) ==
    IF type = "assistant" THEN current_timestamp(n) + 1
                          ELSE current_timestamp(n)

(***************************************************************************)
(* Graph messages                                                          *)
(***************************************************************************)
HumanMessage(n) ==
    [role |-> "human", turn |-> n, calls |-> <<>>, content |-> "",
     name |-> "", status |-> "", idx |-> 0]

AIMessage(n, calls, text) ==
    [role |-> "ai", turn |-> n, calls |-> calls, content |-> text,
     name |-> "", status |-> "", idx |-> 0]

ToolMessage(n, name, status, i) ==
    [role |-> "tool", turn |-> n, calls |-> <<>>, content |-> "",
     name |-> name, status |-> status, idx |-> i]

Last(s) == s[Len(s)]

\* a condition that always routes to the tools node
tools_condition_Always(msgs) == "tools"

\* tools_condition: "tools" when the last AI message holds tool calls
tools_condition(msgs) ==
    IF Len(Last(msgs).calls) > 0 THEN "tools" ELSE "end"

InFlight == {"user_load", "user_write", "graph_begin", "supervisor", "tools",
             "attribute", "asst_load", "asst_write"}
Terminal == {"done", "failed", "cancelled"}

(***************************************************************************)
(* Attribution of the answer (process_message, "agent_name")               *)
(***************************************************************************)
\* the substring tests on the name of an invoked operation
ToolTag(name) ==
    CASE name \in {"add_expense", "get_expense_history",
                   "get_total_spending"} -> "Finance Agent"
      [] name \in {"create_event", "create_event_with_conflict_check",
                   "get_events_for_date"} -> "Calendar Agent"
      [] name = "tavily_search" -> "Search Agent"
      [] OTHER -> "none"

\* the keyword tests on the answer's text
KeywordTag(text) ==
    CASE text = "expense added" -> "Finance Agent"
      [] text = "event saved" -> "Calendar Agent"
      [] OTHER -> "Supervisor Agent"

\* indices of the messages of the graph state that carry tool calls
CallIdx(msgs) == { i \in DOMAIN msgs : Len(msgs[i].calls) > 0 }

\* indices of those whose first tool call matches one of the name lists
TagIdx(msgs) == { i \in CallIdx(msgs) : ToolTag(msgs[i].calls[1]) # "none" }

Min(S) == CHOOSE x \in S : \A y \in S : x <= y

AgentName(msgs) ==
    IF CallIdx(msgs) = {}
    THEN KeywordTag(Last(msgs).content)
    ELSE IF TagIdx(msgs) = {}
         THEN "Supervisor Agent"
         ELSE ToolTag(msgs[Min(TagIdx(msgs))].calls[1])

\* no history was requested yet; no calendar operation was called yet
NoHistory == [thread_id |-> << >>, messages |-> << >>]
NoResult == [op |-> "none"]
NoDelete == [thread_id |-> << >>, returned |-> "none"]

(***************************************************************************)
(* Initial state: no file, no log row, no checkpoint, no call in progress  *)
(***************************************************************************)
Init ==
    /\ files = << >>
    /\ logs = << >>
    /\ checkpoint = [t \in ThreadIds |-> << >>]
    /\ pc = [p \in Procs |-> "idle"]
    /\ tid = [p \in Procs |-> T1]
    /\ turn = [p \in Procs |-> 0]
    /\ loaded = [p \in Procs |-> << >>]
    /\ gstate = [p \in Procs |-> << >>]
    /\ step = [p \in Procs |-> 0]
    /\ nOracle = [p \in Procs |-> 0]
    /\ nEnter = [p \in Procs |-> 0]
    /\ finished = [p \in Procs |-> << >>]
    /\ outcome = [p \in Procs |-> << >>]
    /\ resp = [p \in Procs |-> "none"]
    /\ cause = [p \in Procs |-> "none"]
    /\ base = [p \in Procs |-> << >>]
    /\ gbase = [p \in Procs |-> << >>]
    /\ nBatches = [p \in Procs |-> 0]
    /\ nCalls = [p \in Procs |-> 0]
    /\ appended = [t \in ThreadIds |-> << >>]
    /\ overlap = FALSE
    /\ concurrent = FALSE
    /\ nTurns = 0
    /\ hist = NoHistory
    /\ delres = NoDelete
    /\ events = {}
    /\ now = 0
    /\ calres = NoResult

File(p) == _get_conversation_file_path(tid[p])

(***************************************************************************)
(* process_message: the user message is saved                              *)
(***************************************************************************)
\* a client calls process_message(message, thread_id = t); the row of the
\* user message is inserted into the logs table
Start(p, t) ==
    /\ pc[p] \in {"idle"} \cup Terminal
    /\ nTurns < MaxTurns
    /\ p = "p1" \/ nTurns > 0
    /\ t \in ClientThreads(p)
    /\ nTurns' = nTurns + 1
    /\ turn' = [turn EXCEPT ![p] = nTurns + 1]
    /\ tid' = [tid EXCEPT ![p] = t]
    /\ logs' = Append(logs, LogRow(t, "user", nTurns + 1, "", "",
                                   Timestamp(nTurns + 1, "user")))
    /\ pc' = [pc EXCEPT ![p] = "user_load"]
    /\ loaded' = [loaded EXCEPT ![p] = << >>]
    /\ gstate' = [gstate EXCEPT ![p] = << >>]
    /\ step' = [step EXCEPT ![p] = 0]
    /\ nOracle' = [nOracle EXCEPT ![p] = 0]
    /\ nEnter' = [nEnter EXCEPT ![p] = 0]
    /\ finished' = [finished EXCEPT ![p] = << >>]
    /\ outcome' = [outcome EXCEPT ![p] = << >>]
    /\ resp' = [resp EXCEPT ![p] = "none"]
    /\ cause' = [cause EXCEPT ![p] = "none"]
    /\ base' = [base EXCEPT ![p] =
                   _load_messages_from_file(_get_conversation_file_path(t))]
    /\ gbase' = [gbase EXCEPT ![p] = << >>]
    /\ nBatches' = [nBatches EXCEPT ![p] = 0]
    /\ nCalls' = [nCalls EXCEPT ![p] = 0]
    /\ overlap' = (overlap \/ \E q \in Procs \ {p} :
                                 pc[q] \in InFlight /\ tid[q] = t)
    /\ concurrent' = (concurrent \/ \E q \in Procs \ {p} : pc[q] \in InFlight)
    /\ UNCHANGED <<files, checkpoint, appended, apiVars>>

\* save_message, first half: the file of the thread is read
LoadFile(p, at, next) ==
    /\ pc[p] = at
    /\ loaded' = [loaded EXCEPT ![p] = _load_messages_from_file(File(p))]
    /\ pc' = [pc EXCEPT ![p] = next]

\* a save that writes the new message alone
WriteFile_Overwrite(p, at, next, type, text, agent) ==
    LET m == StoreMessage(loaded[p], tid[p], type, turn[p], text, agent,
                         Timestamp(turn[p], type)) IN
    /\ pc[p] = at
    /\ files' = _save_messages_to_file(File(p), << m >>)
    /\ appended' = [appended EXCEPT ![tid[p]] = Append(@, m)]
    /\ loaded' = [loaded EXCEPT ![p] = << >>]
    /\ pc' = [pc EXCEPT ![p] = next]

\* save_message, second half: the new message is appended to the list that
\* was read and the list is written back
WriteFile(p, at, next, type, text, agent) ==
    LET m == StoreMessage(loaded[p], tid[p], type, turn[p], text, agent,
                         Timestamp(turn[p], type)) IN
    /\ pc[p] = at
    /\ files' = _save_messages_to_file(File(p), Append(loaded[p], m))
    /\ appended' = [appended EXCEPT ![tid[p]] = Append(@, m)]
    /\ loaded' = [loaded EXCEPT ![p] = << >>]
    /\ pc' = [pc EXCEPT ![p] = next]

UserLoad(p) ==
    /\ LoadFile(p, "user_load", "user_write")
    /\ UNCHANGED <<files, logs, checkpoint, tid, turn, gstate, step, nOracle,
                   nEnter, finished, outcome, resp, cause, base, gbase,
                   nBatches, nCalls, appended, overlap, concurrent, nTurns,
                   apiVars>>

UserWrite(p) ==
    /\ WriteFile(p, "user_write", "graph_begin", "user", "", "")
    /\ UNCHANGED <<logs, checkpoint, tid, turn, gstate, step, nOracle,
                   nEnter, finished, outcome, resp, cause, base, gbase,
                   nBatches, nCalls, overlap, concurrent, nTurns, apiVars>>

(***************************************************************************)
(* graph.ainvoke: the supervisor/tools graph on the thread's checkpoint    *)
(***************************************************************************)
\* a run that starts from the new human message alone
GraphBegin_Fresh(p) ==
    /\ pc[p] = "graph_begin"
    /\ gbase' = [gbase EXCEPT ![p] = checkpoint[tid[p]]]
    /\ gstate' = [gstate EXCEPT ![p] = << HumanMessage(turn[p]) >>]
    /\ checkpoint' = [checkpoint EXCEPT ![tid[p]] =
                         << HumanMessage(turn[p]) >>]
    /\ step' = [step EXCEPT ![p] = 0]
    /\ nEnter' = [nEnter EXCEPT ![p] = 1]
    /\ pc' = [pc EXCEPT ![p] = "supervisor"]
    /\ UNCHANGED <<files, logs, tid, turn, loaded, nOracle, finished, outcome,
                   resp, cause, base, nBatches, nCalls, appended, overlap,
                   concurrent, nTurns, apiVars>>

\* the run starts from the checkpointed messages of the thread plus the new
\* human message; the input is checkpointed before the first superstep
GraphBegin(p) ==
    /\ pc[p] = "graph_begin"
    /\ gbase' = [gbase EXCEPT ![p] = checkpoint[tid[p]]]
    /\ gstate' = [gstate EXCEPT ![p] =
                     Append(checkpoint[tid[p]], HumanMessage(turn[p]))]
    /\ checkpoint' = [checkpoint EXCEPT ![tid[p]] =
                         Append(@, HumanMessage(turn[p]))]
    /\ step' = [step EXCEPT ![p] = 0]
    /\ nEnter' = [nEnter EXCEPT ![p] = 1]
    /\ pc' = [pc EXCEPT ![p] = "supervisor"]
    /\ UNCHANGED <<files, logs, tid, turn, loaded, nOracle, finished, outcome,
                   resp, cause, base, nBatches, nCalls, appended, overlap,
                   concurrent, nTurns, apiVars>>

\* the operation batch of the previous reply of this call
LastBatch(p) == Last(gstate[p]).calls

\* a run that is never stopped
AfterSuperstep_NoLimit(p, n, nextNode) ==
    /\ pc' = [pc EXCEPT ![p] = nextNode]
    /\ UNCHANGED <<cause, resp>>

\* position after a superstep that leaves the given node to run next: the
\* run stops with GraphRecursionError when the limit of supersteps is used up
AfterSuperstep(p, n, nextNode) ==
    IF n >= RecursionLimit
    THEN /\ pc' = [pc EXCEPT ![p] = "failed"]
         /\ cause' = [cause EXCEPT ![p] = "recursion"]
         /\ resp' = [resp EXCEPT ![p] = GenericError]
    ELSE /\ pc' = [pc EXCEPT ![p] = nextNode]
         /\ UNCHANGED <<cause, resp>>

\* a failure of the model call that is swallowed: the node is run again
OracleFails_Retry(p) ==
    /\ pc[p] = "supervisor"
    /\ nOracle[p] <= MaxFree
    /\ nOracle' = [nOracle EXCEPT ![p] = @ + 1]
    /\ cause' = [cause EXCEPT ![p] = "oracle"]
    /\ finished' = [finished EXCEPT ![p] = << >>]
    /\ outcome' = [outcome EXCEPT ![p] = << >>]
    /\ UNCHANGED <<files, logs, checkpoint, pc, tid, turn, loaded, gstate,
                   step, nEnter, resp, base, gbase,
                   nBatches, nCalls, appended, overlap, concurrent, nTurns,
                   apiVars>>

\* supervisor node: the model call raises; the exception leaves ainvoke and
\* process_message, and the endpoint answers with its error message
OracleFails(p) ==
    /\ pc[p] = "supervisor"
    /\ nOracle[p] <= MaxFree
    /\ nOracle' = [nOracle EXCEPT ![p] = @ + 1]
    /\ pc' = [pc EXCEPT ![p] = "failed"]
    /\ cause' = [cause EXCEPT ![p] = "oracle"]
    /\ resp' = [resp EXCEPT ![p] = GenericError]
    /\ finished' = [finished EXCEPT ![p] = << >>]
    /\ outcome' = [outcome EXCEPT ![p] = << >>]
    /\ UNCHANGED <<files, logs, checkpoint, tid, turn, loaded, gstate, step,
                   nEnter, base, gbase, nBatches, nCalls,
                   appended, overlap, concurrent, nTurns, apiVars>>

\* supervisor node: the reply holds no tool call; tools_condition ends the run
OracleFinal(p, a) ==
    LET msgs == Append(gstate[p], AIMessage(turn[p], << >>, a)) IN
    /\ pc[p] = "supervisor"
    /\ nOracle[p] <= MaxFree
    /\ nOracle' = [nOracle EXCEPT ![p] = @ + 1]
    /\ gstate' = [gstate EXCEPT ![p] = msgs]
    /\ checkpoint' = [checkpoint EXCEPT ![tid[p]] = msgs]
    /\ step' = [step EXCEPT ![p] = @ + 1]
    /\ pc' = [pc EXCEPT ![p] =
                 IF tools_condition(msgs) = "tools" THEN "tools"
                                                    ELSE "attribute"]
    /\ finished' = [finished EXCEPT ![p] = << >>]
    /\ outcome' = [outcome EXCEPT ![p] = << >>]
    /\ UNCHANGED <<files, logs, tid, turn, loaded, nEnter, resp, cause, base,
                   gbase, nBatches, nCalls, appended,
                   overlap, concurrent, nTurns, apiVars>>

Max(S) == CHOOSE x \in S : \A y \in S : x >= y

\* the operation batch of the latest reply held by the graph state
PrevBatch(p) ==
    gstate[p][Max({ i \in DOMAIN gstate[p] : gstate[p][i].role = "ai" })].calls

\* what the Oracle may request at its next reply
MayRequest(p, b) ==
    \/ nOracle[p] < MaxFree
    \/ /\ nOracle[p] >= MaxFree
       /\ nTurns = MaxTurns
       /\ ~concurrent
       /\ b = PrevBatch(p)

\* supervisor node: the reply holds the tool calls b; tools_condition routes
\* to the tools node
OracleRequests(p, b) ==
    LET msgs == Append(gstate[p], AIMessage(turn[p], b, "")) IN
    /\ pc[p] = "supervisor"
    /\ MayRequest(p, b)
    /\ nOracle' = [nOracle EXCEPT ![p] = @ + 1]
    /\ gstate' = [gstate EXCEPT ![p] = msgs]
    /\ checkpoint' = [checkpoint EXCEPT ![tid[p]] = msgs]
    /\ step' = [step EXCEPT ![p] = @ + 1]
    /\ finished' = [finished EXCEPT ![p] = << >>]
    /\ outcome' = [outcome EXCEPT ![p] = [i \in 1..Len(b) |-> "pending"]]
    /\ AfterSuperstep(p, step[p] + 1,
                      IF tools_condition(msgs) = "tools" THEN "tools"
                                                         ELSE "attribute")
    /\ UNCHANGED <<files, logs, tid, turn, loaded, nEnter, base, gbase,
                   nBatches, nCalls, appended, overlap, concurrent, nTurns,
                   apiVars>>

\* tools node, one call: an unknown name gives the "not a valid tool" error
\* message; a handler returns its result, or its error text when it failed
ToolStatuses(p, name) ==
    IF name \notin RegisteredTools THEN {"invalid_tool"}
    ELSE IF nOracle[p] <= MaxFree THEN {"success", "handler_error"}
    ELSE {"success"}

\* the calls of a batch run concurrently and complete in any order
ToolExec(p, i) ==
    /\ pc[p] = "tools"
    /\ i \in 1..Len(LastBatch(p))
    /\ outcome[p][i] = "pending"
    /\ \E st \in ToolStatuses(p, LastBatch(p)[i]) :
           outcome' = [outcome EXCEPT ![p][i] = st]
    /\ finished' = [finished EXCEPT ![p] = Append(@, i)]
    /\ nCalls' = [nCalls EXCEPT ![p] = @ + 1]
    /\ UNCHANGED <<files, logs, checkpoint, pc, tid, turn, loaded, gstate,
                   step, nOracle, nEnter, resp, cause, base, gbase, nBatches,
                   appended, overlap, concurrent, nTurns, apiVars>>

\* results from which the failed calls are dropped
ToolResults_DropErrors(p) ==
    SelectSeq([i \in 1..Len(LastBatch(p)) |->
                  ToolMessage(turn[p], LastBatch(p)[i], outcome[p][i], i)],
              LAMBDA m : m.status = "success")

\* results in the order in which the calls completed
ToolResults_CompletionOrder(p) ==
    [k \in 1..Len(LastBatch(p)) |->
        ToolMessage(turn[p], LastBatch(p)[finished[p][k]],
                    outcome[p][finished[p][k]], finished[p][k])]

\* the tool messages of a batch, one per call, in the order of the requests
ToolResults(p) ==
    [i \in 1..Len(LastBatch(p)) |->
        ToolMessage(turn[p], LastBatch(p)[i], outcome[p][i], i)]

\* tools node, end of the superstep: the results are added to the state and
\* the edge tools -> supervisor is taken
ToolsReturn(p) ==
    LET msgs == gstate[p] \o ToolResults(p) IN
    /\ pc[p] = "tools"
    /\ Len(finished[p]) = Len(LastBatch(p))
    /\ gstate' = [gstate EXCEPT ![p] = msgs]
    /\ checkpoint' = [checkpoint EXCEPT ![tid[p]] = msgs]
    /\ step' = [step EXCEPT ![p] = @ + 1]
    /\ nBatches' = [nBatches EXCEPT ![p] = @ + 1]
    /\ nEnter' = [nEnter EXCEPT ![p] =
                     IF step[p] + 1 >= RecursionLimit THEN @ ELSE @ + 1]
    /\ AfterSuperstep(p, step[p] + 1, "supervisor")
    /\ UNCHANGED <<files, logs, tid, turn, loaded, nOracle, finished, outcome,
                   base, gbase, nCalls, appended, overlap, concurrent, nTurns,
                   apiVars>>

\* a cancellation that undoes the turn's appends
Cancel_Rollback(p) ==
    /\ pc[p] = "supervisor"
    /\ nOracle[p] <= MaxFree
    /\ pc' = [pc EXCEPT ![p] = "cancelled"]
    /\ cause' = [cause EXCEPT ![p] = "cancel"]
    /\ files' = _save_messages_to_file(File(p), base[p])
    /\ checkpoint' = [checkpoint EXCEPT ![tid[p]] = gbase[p]]
    /\ finished' = [finished EXCEPT ![p] = << >>]
    /\ outcome' = [outcome EXCEPT ![p] = << >>]
    /\ UNCHANGED <<logs, tid, turn, loaded, gstate, step,
                   nOracle, nEnter, resp, base, gbase,
                   nBatches, nCalls, appended, overlap, concurrent, nTurns,
                   apiVars>>

\* the task running process_message is cancelled between two iterations of
\* the loop
Cancel(p) ==
    /\ pc[p] = "supervisor"
    /\ nOracle[p] <= MaxFree
    /\ pc' = [pc EXCEPT ![p] = "cancelled"]
    /\ cause' = [cause EXCEPT ![p] = "cancel"]
    /\ finished' = [finished EXCEPT ![p] = << >>]
    /\ outcome' = [outcome EXCEPT ![p] = << >>]
    /\ UNCHANGED <<files, logs, checkpoint, tid, turn, loaded, gstate, step,
                   nOracle, nEnter, resp, base, gbase,
                   nBatches, nCalls, appended, overlap, concurrent, nTurns,
                   apiVars>>

(***************************************************************************)
(* process_message: the answer is labelled and saved                       *)
(***************************************************************************)
Response(p) == Last(gstate[p]).content

\* result["messages"][-1].content is the answer; agent_name is computed from
\* result["messages"]; the assistant row is inserted into the logs table
Attribute(p) ==
    /\ pc[p] = "attribute"
    /\ logs' = Append(logs, LogRow(tid[p], "assistant", turn[p], Response(p),
                                   AgentName(gstate[p]),
                                   Timestamp(turn[p], "assistant")))
    /\ pc' = [pc EXCEPT ![p] = "asst_load"]
    /\ UNCHANGED <<files, checkpoint, tid, turn, loaded, gstate, step,
                   nOracle, nEnter, finished, outcome, resp, cause, base,
                   gbase, nBatches, nCalls, appended, overlap, concurrent, nTurns,
                   apiVars>>

AsstLoad(p) ==
    /\ LoadFile(p, "asst_load", "asst_write")
    /\ UNCHANGED <<files, logs, checkpoint, tid, turn, gstate, step, nOracle,
                   nEnter, finished, outcome, resp, cause, base, gbase,
                   nBatches, nCalls, appended, overlap, concurrent, nTurns,
                   apiVars>>

\* the assistant message is written and the formatted answer is returned
AsstWrite(p) ==
    /\ WriteFile(p, "asst_write", "done", "assistant", Response(p),
                 AgentName(gstate[p]))
    /\ resp' = [resp EXCEPT ![p] = Response(p)]
    /\ UNCHANGED <<logs, checkpoint, tid, turn, gstate, step, nOracle,
                   nEnter, finished, outcome, cause, base, gbase, nBatches,
                   nCalls, overlap, concurrent, nTurns, apiVars>>

(***************************************************************************)
(* Specifications                                                          *)
(***************************************************************************)
Step(p) ==
    \/ UserLoad(p)
    \/ UserWrite(p)
    \/ GraphBegin(p)
    \/ OracleFails(p)
    \/ \E a \in Answers : OracleFinal(p, a)
    \/ \E b \in Batches : OracleRequests(p, b)
    \/ \E i \in 1..2 : ToolExec(p, i)
    \/ ToolsReturn(p)
    \/ Cancel(p)
    \/ Attribute(p)
    \/ AsstLoad(p)
    \/ AsstWrite(p)

\* clients call concurrently
Next ==
    \/ \E p \in Procs : \E t \in ThreadIds : Start(p, t)
    \/ \E p \in Procs : Step(p)

Spec == Init /\ [][Next]_vars

\* no call is in flight
Quiet == \A p \in Procs : pc[p] \notin InFlight

\* clients call one after the other
SeqNext ==
    \/ \E p \in Procs : \E t \in ThreadIds : Quiet /\ Start(p, t)
    \/ \E p \in Procs : Step(p)

SeqSpec == Init /\ [][SeqNext]_vars

(***************************************************************************)
(* Conversation store operations: saving a message, reading a history,     *)
(* deleting a thread                                                       *)
(***************************************************************************)
\* messages saved in one run of the store operations
MaxSaves == 3

\* timestamps a caller of save_message may pass: equal and out-of-order
\* values happen
Timestamps == {1, 2}

MessageTypes == {"user", "assistant"}

\* the variables of a call of process_message
turnVars == <<checkpoint, pc, tid, turn, loaded, gstate, step, nOracle,
              nEnter, finished, outcome, resp, cause, base, gbase, nBatches,
              nCalls, overlap, concurrent, nTurns>>

\* limit = None
NoLimit == -1

\* the Python slice s[from:to]
Slice(s, from, to) ==
    IF from >= Len(s) \/ to <= from THEN << >>
    ELSE SubSeq(s, from + 1, IF to < Len(s) THEN to ELSE Len(s))

Reverse(s) == [i \in 1..Len(s) |-> s[Len(s) + 1 - i]]

\* the list in ascending order of timestamp
RECURSIVE SortByTimestamp(_)
SortByTimestamp(s) ==
    IF s = << >> THEN << >>
    ELSE LET r == SortByTimestamp(SubSeq(s, 1, Len(s) - 1))
             m == s[Len(s)]
             k == Cardinality({ i \in DOMAIN r :
                                  r[i].timestamp <= m.timestamp })
         IN SubSeq(r, 1, k) \o << m >> \o SubSeq(r, k + 1, Len(r))

\* a reading of the file that orders the messages by their timestamps
get_conversation_messages_ByTimestamp(t, limit, offset) ==
    SortByTimestamp(_load_messages_from_file(_get_conversation_file_path(t)))

\* PerConversationStorageService.get_conversation_messages
get_conversation_messages(t, limit, offset) ==
    LET f == _get_conversation_file_path(t)
        messages == _load_messages_from_file(f)
    IN
    IF f \notin DOMAIN files THEN << >>
    ELSE IF limit # NoLimit THEN Slice(messages, offset, offset + limit)
    ELSE IF offset > 0 THEN Slice(messages, offset, Len(messages))
    ELSE messages

\* the attributes LogsService.__init__ gives an instance: there is no
\* attribute "session"
LogsServiceAttrs == {"engine", "_initialized"}

\* LogsService.get_chat_history: reading self.session raises AttributeError
\* before the try block; otherwise the rows of the thread that are not
\* deleted, latest timestamps first, cut by offset and limit, and reversed
LogsService_get_chat_history(t, limit, offset) ==
    IF "session" \notin LogsServiceAttrs
    THEN [raised |-> TRUE, rows |-> << >>]
    ELSE LET rows == SelectSeq(logs, LAMBDA r : r.thread_id = t
                                                /\ ~r.is_deleted)
             desc == Reverse(SortByTimestamp(rows))
         IN [raised |-> FALSE,
             rows |-> Reverse(Slice(desc, offset, offset + limit))]

\* MultiAgentSystem.get_all_conversation_messages: the file of the thread,
\* or the logs table when the file gives nothing; an exception gives []
MultiAgentSystem_get_all_conversation_messages(t) ==
    LET messages == get_conversation_messages(t, NoLimit, 0)
        fallback == LogsService_get_chat_history(t, 1000, 0)
    IN
    IF messages # << >> THEN messages
    ELSE IF fallback.raised THEN << >>
    ELSE fallback.rows

\* LogsService.delete_thread: reading self.session raises AttributeError
\* before the try block; otherwise the rows of the thread are marked
LogsService_delete_thread(t) ==
    IF "session" \notin LogsServiceAttrs
    THEN [raised |-> TRUE, returned |-> FALSE, rows |-> logs]
    ELSE [raised |-> FALSE, returned |-> TRUE,
          rows |-> [i \in DOMAIN logs |->
                       IF logs[i].thread_id = t
                       THEN [logs[i] EXCEPT !.is_deleted = TRUE]
                       ELSE logs[i]]]

\* PerConversationStorageService.delete_conversation_messages: os.remove
delete_conversation_messages(t) ==
    LET f == _get_conversation_file_path(t) IN
    IF f \in DOMAIN files
    THEN [returned |-> TRUE,
          files |-> [g \in (DOMAIN files) \ {f} |-> files[g]]]
    ELSE [returned |-> FALSE, files |-> files]

\* the two saves of process_message, for a message of thread t with the
\* timestamp ts: a row of the logs table and save_message on the file
SaveMessage(t, type, ts) ==
    LET f == _get_conversation_file_path(t)
        messages == _load_messages_from_file(f)
        n == Len(logs) + 1
        m == StoreMessage(messages, t, type, n, "", "", ts)
    IN
    /\ Len(logs) < MaxSaves
    /\ logs' = Append(logs, LogRow(t, type, n, "", "", ts))
    /\ files' = _save_messages_to_file(f, Append(messages, m))
    /\ appended' = [appended EXCEPT ![t] = Append(@, m)]
    /\ UNCHANGED <<turnVars, apiVars>>

\* GET /api/chat/history/{thread_id}
GetHistory(t) ==
    /\ hist' = [thread_id |-> t,
                messages |-> MultiAgentSystem_get_all_conversation_messages(t)]
    /\ UNCHANGED <<files, logs, appended, turnVars, delres, events, now,
                   calres>>

\* MultiAgentSystem.delete_thread: the logs table, then the file; an
\* exception of either gives False
DeleteThread(t) ==
    LET l == LogsService_delete_thread(t)
        d == delete_conversation_messages(t)
    IN
    /\ IF l.raised
       THEN /\ delres' = [thread_id |-> t, returned |-> "False"]
            /\ UNCHANGED <<logs, files>>
       ELSE /\ logs' = l.rows
            /\ files' = d.files
            /\ delres' = [thread_id |-> t,
                          returned |-> IF l.returned \/ d.returned
                                       THEN "True" ELSE "False"]
    /\ UNCHANGED <<appended, turnVars, hist, events, now, calres>>

StoreNext ==
    \/ \E t \in ThreadIds : \E type \in MessageTypes : \E ts \in Timestamps :
           SaveMessage(t, type, ts)
    \/ \E t \in ThreadIds : GetHistory(t)
    \/ \E t \in ThreadIds : DeleteThread(t)

StoreSpec == Init /\ [][StoreNext]_vars

\* limit values a caller of get_chat_history passes
HistoryLimits == {1, 2}

\* MultiAgentSystem.get_chat_history: the file of the thread read with the
\* limit, or the logs table when that gives nothing; an exception gives []
MultiAgentSystem_get_chat_history(t, limit) ==
    LET messages == get_conversation_messages(t, limit, 0)
        fallback == LogsService_get_chat_history(t, limit, 0)
    IN
    IF messages # << >> THEN messages
    ELSE IF fallback.raised THEN << >>
    ELSE fallback.rows

\* a call of get_chat_history; stored is the list the thread's file holds
GetChatHistory(t, limit) ==
    /\ calres = NoResult
    /\ calres' = [op |-> "get_chat_history", thread_id |-> t,
                  limit |-> limit,
                  stored |-> get_conversation_messages(t, NoLimit, 0),
                  result |-> MultiAgentSystem_get_chat_history(t, limit)]
    /\ UNCHANGED <<files, logs, appended, turnVars, hist, delres, events, now>>

\* the answer of get_chat_history is handed to the caller
ReturnHistory ==
    /\ calres # NoResult
    /\ calres' = NoResult
    /\ UNCHANGED <<files, logs, appended, turnVars, hist, delres, events, now>>

HistNext ==
    \/ \E t \in ThreadIds : \E type \in MessageTypes : \E ts \in Timestamps :
           calres = NoResult /\ SaveMessage(t, type, ts)
    \/ \E t \in ThreadIds : \E limit \in HistoryLimits : GetChatHistory(t, limit)
    \/ ReturnHistory

HistSpec == Init /\ [][HistNext]_vars

(***************************************************************************)
(* Calendar operations (server/calendar_server.py).  Instants are minutes  *)
(* of the reference timezone counted from 00:00 of a Monday (day 0).  The  *)
(* Event Store is the calendar service: events().list(timeMin, timeMax)    *)
(* gives the events that end after timeMin and start before timeMax, by    *)
(* start time, and rejects an empty or malformed time range.               *)
(***************************************************************************)
\* events the calendar may hold in one run
MaxEvents == 2

\* VN_TZ.localize(datetime.combine(date, time(hour, minute)))
At(d, h, m) == (d * 24 + h) * 60 + m

\* .date(), .hour and date.weekday() (0 is Monday)
DateOf(t) == t \div At(1, 0, 0)
HourOf(t) == (t % At(1, 0, 0)) \div 60
weekday(d) == d % 7

\* text of check_conflicts that create_event_with_conflict_check looks for
NoConflictsPhrase == "No conflicts found"

\* events that external writers may put into the calendar: a timed event, an
\* event whose title is the phrase above, an all-day event (its start and
\* end are dates) and an event that fills the working hours of the day
EventPool ==
    { [id |-> 1, summary |-> "Standup", allDay |-> FALSE,
       start |-> At(4, 10, 0), end |-> At(4, 11, 0)],
      [id |-> 2, summary |-> NoConflictsPhrase, allDay |-> FALSE,
       start |-> At(4, 14, 0), end |-> At(4, 15, 0)],
      [id |-> 3, summary |-> "Holiday", allDay |-> TRUE,
       start |-> At(5, 0, 0), end |-> At(6, 0, 0)],
      [id |-> 4, summary |-> "Workshop", allDay |-> FALSE,
       start |-> At(4, 9, 0), end |-> At(4, 18, 0)] }

\* readings of the clock
Nows == {At(4, 8, 0), At(4, 12, 0)}

\* time ranges a caller asks about: start, end and the UTC offset written in
\* the two datetime strings ("" when the strings carry none)
Requests ==
    { [start |-> At(4, 10, 0), end |-> At(4, 11, 0), offset |-> ""],
      [start |-> At(4, 11, 0), end |-> At(4, 12, 0), offset |-> "+07:00"],
      [start |-> At(4, 14, 30), end |-> At(4, 15, 30), offset |-> ""],
      [start |-> At(5, 10, 0), end |-> At(5, 11, 0), offset |-> "+09:00"] }

\* the offset of the reference timezone, in minutes, and of a written one
OffsetMinutes(offset) ==
    CASE offset = "+09:00" -> 9 * 60
      [] offset = "Z" -> 0
      [] OTHER -> 7 * 60

\* the instant a datetime string with the given offset denotes
Instant(t, offset) == t - (OffsetMinutes(offset) - OffsetMinutes("+07:00"))

RECURSIVE ItemsByStart(_)
ItemsByStart(S) ==
    IF S = {} THEN << >>
    ELSE LET e == CHOOSE x \in S : \A y \in S :
                      \/ x.start < y.start
                      \/ x.start = y.start /\ x.id <= y.id
         IN << e >> \o ItemsByStart(S \ {e})

\* a listing that also gives the events touching the range at an endpoint
events_list_Closed(timeMin, timeMax, wellFormed, up) ==
    IF ~up \/ ~wellFormed \/ timeMin >= timeMax
    THEN [error |-> TRUE, items |-> << >>]
    ELSE [error |-> FALSE,
          items |-> ItemsByStart({ e \in events :
                                     e.end >= timeMin /\ e.start <= timeMax })]

\* service.events().list(timeMin, timeMax, singleEvents, orderBy=startTime)
\* .execute(): raises when the service fails (up = FALSE), when a bound is
\* not a well-formed timestamp and when the range is empty
events_list(timeMin, timeMax, wellFormed, up) ==
    IF ~up \/ ~wellFormed \/ timeMin >= timeMax
    THEN [error |-> TRUE, items |-> << >>]
    ELSE [error |-> FALSE,
          items |-> ItemsByStart({ e \in events :
                                     e.end > timeMin /\ e.start < timeMax })]

\* check_conflicts appends '+07:00' to a string that ends neither with
\* '+07:00' nor with 'Z': a string with another offset becomes malformed
WellFormed(offset) == offset \in {"", "+07:00", "Z"}

\* check_conflicts: "No conflicts found...", the list of the events found,
\* or the text of the error
check_conflicts(r, up) ==
    LET res == events_list(r.start, r.end, WellFormed(r.offset), up) IN
    IF res.error THEN [kind |-> "error", items |-> << >>]
    ELSE IF res.items = << >> THEN [kind |-> "none", items |-> << >>]
    ELSE [kind |-> "conflicts", items |-> res.items]

\* "No conflicts found" in conflict_check: the text of a conflict list holds
\* the titles of the events it lists
ContainsNoConflicts(c) ==
    \/ c.kind = "none"
    \/ /\ c.kind = "conflicts"
       /\ \E i \in DOMAIN c.items : c.items[i].summary = NoConflictsPhrase

\* the calendar is shared: between two operations another writer adds an
\* event
ExternalWrite(e) ==
    /\ calres = NoResult
    /\ e \notin events
    /\ Cardinality(events) < MaxEvents
    /\ events' = events \cup {e}
    /\ UNCHANGED <<files, logs, appended, turnVars, hist, delres, now, calres>>

\* time passes between two operations
Tick(t) ==
    /\ calres = NoResult
    /\ t > now
    /\ now' = t
    /\ UNCHANGED <<files, logs, appended, turnVars, hist, delres, events,
                   calres>>

\* tool check_conflicts(start_datetime, end_datetime)
CheckConflicts(r, up) ==
    /\ calres = NoResult
    /\ calres' = [op |-> "check_conflicts", request |-> r,
                  calendar |-> events, at |-> now,
                  result |-> check_conflicts(r, up)]
    /\ UNCHANGED <<files, logs, appended, turnVars, hist, delres, events, now>>

\* days and hours a caller of check_availability asks about
OpenRanges ==
    { [day |-> 4, from |-> At(0, 9, 0), to |-> At(0, 18, 0)],
      [day |-> 5, from |-> At(0, 9, 0), to |-> At(0, 18, 0)] }

\* the loop over the sorted busy periods: a free period before each busy
\* period that starts after current_time, and one after the last
RECURSIVE FreePeriods(_, _, _, _, _)
FreePeriods(busy, i, current_time, end_dt, free) ==
    IF i > Len(busy)
    THEN IF current_time < end_dt
         THEN Append(free, <<current_time, end_dt>>)
         ELSE free
    ELSE FreePeriods(busy, i + 1,
                     IF current_time > busy[i][2] THEN current_time
                                                  ELSE busy[i][2],
                     end_dt,
                     IF current_time < busy[i][1]
                     THEN Append(free, <<current_time, busy[i][1]>>)
                     ELSE free)

\* check_availability(date, start_time, end_time): the busy periods are the
\* events whose start is a datetime ('T' in start); the free periods are
\* computed only when there is a busy period
check_availability(o, up) ==
    LET start_dt == At(o.day, 0, 0) + o.from
        end_dt == At(o.day, 0, 0) + o.to
        res == events_list(start_dt, end_dt, TRUE, up)
        timed == SelectSeq(res.items, LAMBDA e : ~e.allDay)
        busy_periods == [i \in DOMAIN timed |->
                            <<timed[i].start, timed[i].end>>]
    IN
    IF res.error
    THEN [kind |-> "error", found |-> 0, busy |-> << >>, free |-> << >>]
    ELSE IF res.items = << >>
    THEN [kind |-> "report", found |-> 0, busy |-> << >>,
          free |-> << <<start_dt, end_dt>> >>]
    ELSE [kind |-> "report", found |-> Len(res.items), busy |-> busy_periods,
          free |-> IF busy_periods # << >>
                   THEN FreePeriods(busy_periods, 1, start_dt, end_dt, << >>)
                   ELSE << >>]

\* tool check_availability
CheckAvailability(o, up) ==
    /\ calres = NoResult
    /\ calres' = [op |-> "check_availability", request |-> o,
                  calendar |-> events, at |-> now,
                  result |-> check_availability(o, up)]
    /\ UNCHANGED <<files, logs, appended, turnVars, hist, delres, events, now>>

\* the id the calendar service gives a new event
NewId == 1 + Max({ e.id : e \in events \cup EventPool })

\* created_event of service.events().insert(body=event).execute()
CreatedEvent(r) ==
    [id |-> NewId, summary |-> "New", allDay |-> FALSE,
     start |-> Instant(r.start, r.offset), end |-> Instant(r.end, r.offset)]

\* create_event_with_conflict_check: the answer and the calendar afterwards
create_event_with_conflict_check(r, force_create, listUp, insertUp) ==
    LET conflict_check == check_conflicts(r, listUp) IN
    IF ~ContainsNoConflicts(conflict_check) /\ ~force_create
    THEN [kind |-> "conflict_detected", conflict_check |-> conflict_check,
          warning |-> FALSE, events |-> events]
    ELSE IF ~insertUp
    THEN [kind |-> "error", conflict_check |-> conflict_check,
          warning |-> FALSE, events |-> events]
    ELSE [kind |-> "created", conflict_check |-> conflict_check,
          warning |-> force_create /\ ~ContainsNoConflicts(conflict_check),
          events |-> events \cup {CreatedEvent(r)}]

\* tool create_event_with_conflict_check
CreateEventWithConflictCheck(r, force_create, listUp, insertUp) ==
    LET res == create_event_with_conflict_check(r, force_create, listUp,
                                                insertUp) IN
    /\ calres = NoResult
    /\ Cardinality(events) < MaxEvents
    /\ events' = res.events
    /\ calres' = [op |-> "create_event_with_conflict_check", request |-> r,
                  force_create |-> force_create,
                  calendar |-> events, at |-> now, result |-> res]
    /\ UNCHANGED <<files, logs, appended, turnVars, hist, delres, now>>

\* tool create_event: create_event_with_conflict_check with force_create=True
CreateEvent(r, listUp, insertUp) ==
    LET res == create_event_with_conflict_check(r, TRUE, listUp, insertUp) IN
    /\ calres = NoResult
    /\ Cardinality(events) < MaxEvents
    /\ events' = res.events
    /\ calres' = [op |-> "create_event", request |-> r,
                  force_create |-> TRUE,
                  calendar |-> events, at |-> now, result |-> res]
    /\ UNCHANGED <<files, logs, appended, turnVars, hist, delres, now>>

\* the cap on the number of suggestions ("Limit to 5 suggestions")
MaxSuggestions == 5

\* duration_minutes and days_ahead a caller passes
Durations == {30, 60}
DaysAheadValues == {0, 1, 2}

\* original start times a caller of suggest_alternative_times passes
SearchStarts == {At(4, 15, 0), At(5, 10, 0)}

\* time_slots of suggest_alternative_times
time_slots == <<9, 10, 11, 14, 15, 16>>

\* a check that finds every slot available
SlotIsFree_Always(slot) == TRUE

\* the slot is available when the listing of its range is empty
SlotIsFree(slot) ==
    events_list(slot.start, slot.end, TRUE, TRUE).items = << >>

\* a collection that never stops
RECURSIVE CollectSlots_NoCap(_, _, _)
CollectSlots_NoCap(slots, k, suggestions) ==
    IF k > Len(slots) THEN suggestions
    ELSE CollectSlots_NoCap(slots, k + 1,
                            IF SlotIsFree(slots[k])
                            THEN Append(suggestions, slots[k])
                            ELSE suggestions)

\* the loops of the two searches: the slots are visited in order, a slot
\* that is available is appended, and the loops are left once the list
\* holds MaxSuggestions slots
RECURSIVE CollectSlots(_, _, _)
CollectSlots(slots, k, suggestions) ==
    IF k > Len(slots) \/ Len(suggestions) >= MaxSuggestions THEN suggestions
    ELSE CollectSlots(slots, k + 1,
                      IF SlotIsFree(slots[k])
                      THEN Append(suggestions, slots[k])
                      ELSE suggestions)

\* a search with the hours outside and the days inside
AlternativeSlots_HoursOuter(current_date, duration, days_ahead) ==
    [k \in 1..((days_ahead + 1) * Len(time_slots)) |->
        LET check_date == current_date + ((k - 1) % (days_ahead + 1))
            hour == time_slots[((k - 1) \div (days_ahead + 1)) + 1]
        IN [start |-> At(check_date, hour, 0),
            end |-> At(check_date, hour, 0) + duration]]

\* the slots suggest_alternative_times visits: days outside, hours inside
AlternativeSlots(current_date, duration, days_ahead) ==
    [k \in 1..((days_ahead + 1) * Len(time_slots)) |->
        LET check_date == current_date + (k - 1) \div Len(time_slots)
            hour == time_slots[((k - 1) % Len(time_slots)) + 1]
        IN [start |-> At(check_date, hour, 0),
            end |-> At(check_date, hour, 0) + duration]]

\* suggest_alternative_times: a failure of the listing gives the error text
suggest_alternative_times(original_start, duration, days_ahead, up) ==
    LET slots == AlternativeSlots(DateOf(original_start), duration,
                                  days_ahead)
        suggestions == CollectSlots(slots, 1, << >>)
    IN
    IF ~up /\ slots # << >> THEN [kind |-> "error", slots |-> << >>]
    ELSE IF suggestions = << >> THEN [kind |-> "none", slots |-> << >>]
    ELSE [kind |-> "suggestions", slots |-> suggestions]

\* tool suggest_alternative_times
SuggestAlternativeTimes(original_start, duration, days_ahead, up) ==
    /\ calres = NoResult
    /\ calres' = [op |-> "suggest_alternative_times",
                  start_date |-> DateOf(original_start),
                  duration |-> duration, days_ahead |-> days_ahead,
                  up |-> up, calendar |-> events, at |-> now,
                  result |-> suggest_alternative_times(original_start,
                                 duration, days_ahead, up)]
    /\ UNCHANGED <<files, logs, appended, turnVars, hist, delres, events, now>>

\* activity_type values a caller of suggest_optimal_time passes
ActivityTypes ==
    {"meeting", "Meeting", "họp", "deep work", "coding", "creative work",
     "email", "lunch"}

\* str.lower() on the activity types above
lower(s) == IF s = "Meeting" THEN "meeting" ELSE s

\* preferred_date values: None or a date
PreferredDates ==
    { [given |-> FALSE, date |-> 0], [given |-> TRUE, date |-> 4],
      [given |-> TRUE, date |-> 5] }

\* optimal_ranges of suggest_optimal_time, as start and end minutes of a day
optimal_ranges(activity_type) ==
    CASE lower(activity_type) \in {"meeting", "họp", "cuộc họp",
                                   "team meeting", "client meeting"} ->
             << <<At(0, 10, 0), At(0, 11, 30)>>,
                <<At(0, 13, 30), At(0, 15, 0)>> >>
      [] lower(activity_type) \in {"focus work", "deep work", "coding",
                                   "writing", "analysis"} ->
             << <<At(0, 9, 0), At(0, 11, 0)>>,
                <<At(0, 14, 0), At(0, 16, 0)>> >>
      [] lower(activity_type) \in {"creative work", "brainstorming",
                                   "planning", "design"} ->
             << <<At(0, 10, 0), At(0, 12, 0)>>,
                <<At(0, 15, 0), At(0, 17, 0)>> >>
      [] lower(activity_type) \in {"admin", "email", "routine",
                                   "administrative"} ->
             << <<At(0, 9, 0), At(0, 10, 0)>>,
                <<At(0, 16, 0), At(0, 17, 0)>> >>
      [] OTHER ->
             << <<At(0, 10, 0), At(0, 11, 30)>>,
                <<At(0, 13, 30), At(0, 15, 0)>> >>

\* weekends are skipped for these activity types only
SkipsWeekend(activity_type) ==
    lower(activity_type) \in {"meeting", "focus work", "admin"}

\* the slots of one optimal range of a day: a cursor moves by 30 minutes
\* while current_time + duration <= range_end
RangeSlots(check_date, range, duration) ==
    LET range_start == At(check_date, 0, 0) + range[1]
        range_end == At(check_date, 0, 0) + range[2]
        n == IF range_start + duration > range_end THEN 0
             ELSE (range_end - range_start - duration) \div 30 + 1
    IN [k \in 1..n |-> [start |-> range_start + 30 * (k - 1),
                        end |-> range_start + 30 * (k - 1) + duration]]

\* the slots suggest_optimal_time visits from the day with the given offset
\* on: days outside, then the optimal ranges, then the cursor
RECURSIVE OptimalSlots(_, _, _, _, _)
OptimalSlots(activity_type, start_date, duration, day_offset, days_ahead) ==
    IF day_offset > days_ahead THEN << >>
    ELSE LET check_date == start_date + day_offset
             ranges == optimal_ranges(activity_type)
             today == IF weekday(check_date) >= 5
                         /\ SkipsWeekend(activity_type)
                      THEN << >>
                      ELSE RangeSlots(check_date, ranges[1], duration)
                           \o RangeSlots(check_date, ranges[2], duration)
         IN today \o OptimalSlots(activity_type, start_date, duration,
                                  day_offset + 1, days_ahead)

\* a score that counts the weekday bonus only
calculate_productivity_score_WeekdayOnly(t, activity_type, wd) ==
    5 + (IF 0 <= wd /\ wd <= 4 THEN 1 ELSE 0)

\* a score that is not clamped to 1..10
calculate_productivity_score_NoClamp(t, activity_type, wd) ==
    LET hour == HourOf(t)
        time_score ==
            IF 9 <= hour /\ hour <= 11 THEN 3
            ELSE IF 14 <= hour /\ hour <= 16 THEN 2
            ELSE IF hour < 9 \/ hour > 17 THEN -2
            ELSE 0
        activity_score ==
            IF lower(activity_type) \in {"meeting", "họp"}
            THEN IF (10 <= hour /\ hour <= 11) \/ (13 <= hour /\ hour <= 15)
                 THEN 2 ELSE 0
            ELSE IF lower(activity_type) \in {"focus work", "coding"}
            THEN IF 9 <= hour /\ hour <= 11 THEN 3 ELSE 0
            ELSE IF lower(activity_type) \in {"creative work"}
            THEN IF 10 <= hour /\ hour <= 12 THEN 2 ELSE 0
            ELSE 0
        weekday_score == IF 0 <= wd /\ wd <= 4 THEN 1 ELSE 0
    IN 5 + time_score + activity_score + weekday_score

\* calculate_productivity_score(datetime_obj, activity_type, weekday)
calculate_productivity_score(t, activity_type, wd) ==
    LET hour == HourOf(t)
        time_score ==
            IF 9 <= hour /\ hour <= 11 THEN 3
            ELSE IF 14 <= hour /\ hour <= 16 THEN 2
            ELSE IF 10 <= hour /\ hour <= 11 THEN 1
            ELSE IF hour < 9 \/ hour > 17 THEN -2
            ELSE 0
        activity_score ==
            IF lower(activity_type) \in {"meeting", "họp"}
            THEN IF (10 <= hour /\ hour <= 11) \/ (13 <= hour /\ hour <= 15)
                 THEN 2 ELSE 0
            ELSE IF lower(activity_type) \in {"focus work", "coding"}
            THEN IF 9 <= hour /\ hour <= 11 THEN 3 ELSE 0
            ELSE IF lower(activity_type) \in {"creative work"}
            THEN IF 10 <= hour /\ hour <= 12 THEN 2 ELSE 0
            ELSE 0
        weekday_score == IF 0 <= wd /\ wd <= 4 THEN 1 ELSE 0
        score == 5 + time_score + activity_score + weekday_score
    IN IF score > 10 THEN 10 ELSE IF score < 1 THEN 1 ELSE score

\* the arguments of calculate_productivity_score: every hour of a day, on
\* the hour and on the half-hour, every weekday() value, and the activity
\* types with the names only the scoring or only the ranges know
Hours == 0..23

Minutes == {0, 30}

Weekdays == 0..6

ScoredActivityTypes ==
    ActivityTypes \cup {"focus work", "admin", "team meeting", "design"}

\* one call of calculate_productivity_score
CalculateProductivityScore(hour, minute, activity_type, wd) ==
    /\ calres = NoResult
    /\ calres' = [op |-> "calculate_productivity_score",
                  hour |-> hour, minute |-> minute,
                  activity_type |-> activity_type, weekday |-> wd,
                  result |-> calculate_productivity_score(
                                 At(0, hour, minute), activity_type, wd)]
    /\ UNCHANGED <<files, logs, appended, turnVars, hist, delres, events, now>>

\* a sort by score that puts a suggestion before the suggestions of the
\* same score found earlier
RECURSIVE SortByScore_Unstable(_)
SortByScore_Unstable(s) ==
    IF s = << >> THEN << >>
    ELSE LET r == SortByScore_Unstable(SubSeq(s, 1, Len(s) - 1))
             m == s[Len(s)]
             k == Cardinality({ i \in DOMAIN r :
                                  r[i].productivity_score
                                      > m.productivity_score })
         IN SubSeq(r, 1, k) \o << m >> \o SubSeq(r, k + 1, Len(r))

\* suggestions.sort(key=productivity_score, reverse=True): a stable sort
RECURSIVE SortByScore(_)
SortByScore(s) ==
    IF s = << >> THEN << >>
    ELSE LET r == SortByScore(SubSeq(s, 1, Len(s) - 1))
             m == s[Len(s)]
             k == Cardinality({ i \in DOMAIN r :
                                  r[i].productivity_score
                                      >= m.productivity_score })
         IN SubSeq(r, 1, k) \o << m >> \o SubSeq(r, k + 1, Len(r))

\* suggest_optimal_time: a failure of the listing gives the error text
suggest_optimal_time(activity_type, duration, preferred_date, days_ahead, up) ==
    LET start_date == IF preferred_date.given THEN preferred_date.date
                                              ELSE DateOf(now)
        slots == OptimalSlots(activity_type, start_date, duration, 0,
                              days_ahead)
        found == CollectSlots(slots, 1, << >>)
        suggestions ==
            [i \in DOMAIN found |->
                [start |-> found[i].start, end |-> found[i].end,
                 productivity_score |->
                     calculate_productivity_score(
                         found[i].start, activity_type,
                         weekday(DateOf(found[i].start)))]]
    IN
    IF ~up /\ slots # << >> THEN [kind |-> "error", slots |-> << >>]
    ELSE IF suggestions = << >> THEN [kind |-> "none", slots |-> << >>]
    ELSE [kind |-> "suggestions", slots |-> SortByScore(suggestions)]

\* tool suggest_optimal_time
SuggestOptimalTime(activity_type, duration, preferred_date, days_ahead, up) ==
    /\ calres = NoResult
    /\ calres' = [op |-> "suggest_optimal_time",
                  activity_type |-> activity_type,
                  start_date |-> IF preferred_date.given
                                 THEN preferred_date.date ELSE DateOf(now),
                  duration |-> duration, days_ahead |-> days_ahead,
                  up |-> up, calendar |-> events, at |-> now,
                  result |-> suggest_optimal_time(activity_type, duration,
                                 preferred_date, days_ahead, up)]
    /\ UNCHANGED <<files, logs, appended, turnVars, hist, delres, events, now>>

\* the text of the answer is returned to the caller of the tool; calres
\* holds the answer of an operation until then
ReturnResult ==
    /\ calres # NoResult
    /\ calres' = NoResult
    /\ UNCHANGED <<files, logs, appended, turnVars, hist, delres, events, now>>

CalNext ==
    \/ \E e \in EventPool : ExternalWrite(e)
    \/ \E t \in Nows : Tick(t)
    \/ \E r \in Requests : \E up \in BOOLEAN : CheckConflicts(r, up)
    \/ \E o \in OpenRanges : \E up \in BOOLEAN : CheckAvailability(o, up)
    \/ \E r \in Requests : \E force_create, listUp, insertUp \in BOOLEAN :
           CreateEventWithConflictCheck(r, force_create, listUp, insertUp)
    \/ \E r \in Requests : \E listUp, insertUp \in BOOLEAN :
           CreateEvent(r, listUp, insertUp)
    \/ \E s \in SearchStarts : \E d \in Durations :
       \E a \in DaysAheadValues : \E up \in BOOLEAN :
           SuggestAlternativeTimes(s, d, a, up)
    \/ \E t \in ActivityTypes : \E d \in Durations : \E p \in PreferredDates :
       \E a \in DaysAheadValues : \E up \in BOOLEAN :
           SuggestOptimalTime(t, d, p, a, up)
    \/ ReturnResult

CalSpec == Init /\ [][CalNext]_vars

\* calls of calculate_productivity_score on all its arguments
ScoreNext ==
    \/ \E hour \in Hours : \E minute \in Minutes :
       \E activity_type \in ScoredActivityTypes : \E wd \in Weekdays :
           CalculateProductivityScore(hour, minute, activity_type, wd)
    \/ ReturnResult

ScoreSpec == Init /\ [][ScoreNext]_vars

\* the tool categories of the supervisor's system prompt
ToolCategory(name) ==
    CASE name \in {"add_expense", "add_multiple_expenses",
                   "get_expense_history", "get_total_spending",
                   "create_spending_chart"} -> "Finance Agent"
      [] name \in {"create_event", "create_event_with_conflict_check",
                   "get_events_for_date", "check_conflicts",
                   "check_availability", "suggest_optimal_time"}
             -> "Calendar Agent"
      [] name = "tavily_search" -> "Search Agent"
      [] OTHER -> "none"

\* batches and answers of one turn on a thread without earlier messages
TurnBatches ==
    { <<"add_expense">>, <<"create_event_with_conflict_check">>,
      <<"check_conflicts">>, <<"create_spending_chart">>,
      <<"tavily_search">>, <<"check_availability", "create_event">> }

TurnAnswers == {"done", "event saved", "expense added"}

TurnRuns ==
    {<< >>} \cup { <<b>> : b \in TurnBatches }
            \cup { <<b, c>> : b \in TurnBatches, c \in TurnBatches }

\* the messages of the graph state after a turn with the given batches:
\* the human message, per batch the AI message with its tool calls and the
\* tool messages, and the answer
RECURSIVE BatchMessages(_)
BatchMessages(run) ==
    IF run = << >> THEN << >>
    ELSE << AIMessage(1, run[1], "") >>
         \o [i \in 1..Len(run[1]) |->
                ToolMessage(1, run[1][i], "success", i)]
         \o BatchMessages(Tail(run))

ResultMessages(run, answer) ==
    << HumanMessage(1) >> \o BatchMessages(run)
                          \o << AIMessage(1, << >>, answer) >>

\* the labelling of process_message on the result of one graph run
LabelAnswer(run, answer) ==
    /\ calres = NoResult
    /\ calres' = [op |-> "agent_name", run |-> run, answer |-> answer,
                  result |-> AgentName(ResultMessages(run, answer))]
    /\ UNCHANGED <<files, logs, appended, turnVars, hist, delres, events, now>>

AttrNext ==
    \/ \E run \in TurnRuns : \E answer \in TurnAnswers :
           LabelAnswer(run, answer)
    \/ ReturnResult

AttrSpec == Init /\ [][AttrNext]_vars

(***************************************************************************)
(* Properties                                                              *)
(***************************************************************************)
\* the positions of the loop: AwaitingDecision and ExecutingOperations
InLoop == {"supervisor", "tools"}
\* the positions after the loop has ended with a final answer (Done)
AfterLoop == {"attribute", "asst_load", "asst_write", "done"}

\* C1: whatever the Oracle replies, a turn is in the loop only while fewer
\* supersteps than the recursion limit have run: no turn executes more than
\* RecursionLimit supersteps or invokes the Oracle more than RecursionLimit
\* times, so the tool loop never runs forever.
C1_TerminatesWithinCap ==
    \A p \in Procs :
        /\ step[p] <= RecursionLimit
        /\ nOracle[p] <= RecursionLimit
        /\ pc[p] \in InLoop => step[p] < RecursionLimit

\* an Oracle that requested an operation at every invocation: the turn has
\* ended when the limit was reached
C1_Witness ==
    \E p \in Procs :
        /\ pc[p] \in Terminal
        /\ step[p] = RecursionLimit
        /\ nBatches[p] = nOracle[p] - 1
        /\ nOracle[p] > 2

\* C2: the loop goes from the supervisor to the tools node exactly when the
\* reply holds one or more operation requests, from the tools node only back
\* to the supervisor, and from the supervisor to the end exactly when the
\* reply holds no request; the end is never reached from the tools node, and
\* the Oracle is invoked once per entry into the supervisor node.
C2_Transitions ==
    /\ [](\A p \in Procs :
            pc[p] \in InLoop \cup AfterLoop =>
                nEnter[p] = nOracle[p] + (IF pc[p] = "supervisor" THEN 1 ELSE 0))
    /\ [][\A p \in Procs :
            /\ (pc[p] = "supervisor" /\ pc'[p] = "tools") =>
                   /\ Len(Last(gstate'[p]).calls) >= 1
                   /\ nOracle'[p] = nOracle[p] + 1
            /\ (pc[p] = "supervisor" /\ pc'[p] \in AfterLoop) =>
                   /\ pc'[p] = "attribute"
                   /\ Last(gstate'[p]).role = "ai"
                   /\ Len(Last(gstate'[p]).calls) = 0
                   /\ nOracle'[p] = nOracle[p] + 1
            /\ (pc[p] = "supervisor" /\ pc'[p] \in InLoop \cup AfterLoop
                  /\ gstate'[p] # gstate[p]) =>
                   (pc'[p] = "tools" <=> Len(Last(gstate'[p]).calls) >= 1)
            /\ pc[p] = "tools" => pc'[p] \in InLoop
            /\ (pc[p] \in InFlight /\ nOracle'[p] # nOracle[p]) =>
                   pc[p] = "supervisor"
         ]_vars

\* a turn that went through the tools node and ended with a final answer
C2_Witness ==
    \E p \in Procs :
        pc[p] = "attribute" /\ nBatches[p] = 1 /\ nOracle[p] = 2

C4_CapGivesAnswer ==
    \A p \in Procs :
        cause[p] = "recursion" =>
            /\ pc[p] \in AfterLoop
            /\ resp[p] # GenericError

\* C5: when the Oracle call fails the turn has ended with the generic error
\* message as its answer, and the turn makes no further Oracle or operation
\* call.
C5_OracleFailureEndsTurn ==
    /\ [](\A p \in Procs :
            cause[p] = "oracle" => pc[p] = "failed" /\ resp[p] = GenericError)
    /\ [][\A p \in Procs :
            (cause[p] = "oracle" /\ cause'[p] = "oracle") =>
                /\ nOracle'[p] = nOracle[p]
                /\ nCalls'[p] = nCalls[p]
                /\ gstate'[p] = gstate[p]
         ]_vars

\* the Oracle failed at its second invocation, after a batch was executed
C5_Witness ==
    \E p \in Procs :
        cause[p] = "oracle" /\ nOracle[p] = 2 /\ nBatches[p] = 1

\* the user message of the turn of p is in the file of its thread
UserSaved(p) ==
    \E i \in DOMAIN _load_messages_from_file(File(p)) :
        LET m == _load_messages_from_file(File(p))[i] IN
        m.turn = turn[p] /\ m.message_type = "user" /\ m.thread_id = tid[p]

\* the messages of the turn of p held by the checkpoint of its thread
TurnMessages(p) ==
    SelectSeq(checkpoint[tid[p]], LAMBDA m : m.turn = turn[p])

\* C6: the step by which a turn ends on an Oracle failure or a cancellation
\* changes no file, no log row and no checkpoint; and when the calls of the
\* run did not overlap, the user message of such a turn is in the thread's
\* file and every message its graph run produced is in the checkpoint.
C6_NothingRolledBack ==
    /\ [][\A p \in Procs :
            (pc[p] \in InFlight /\ cause'[p] \in {"oracle", "cancel"}) =>
                files' = files /\ logs' = logs /\ checkpoint' = checkpoint
         ]_vars
    /\ [](\A p \in Procs :
            (~concurrent /\ cause[p] \in {"oracle", "cancel"}) =>
                /\ UserSaved(p)
                /\ \E i \in DOMAIN logs :
                      logs[i].turn = turn[p] /\ logs[i].message_type = "user"
                /\ TurnMessages(p) =
                      SelectSeq(gstate[p], LAMBDA m : m.turn = turn[p])
                /\ Len(TurnMessages(p)) = 1 + nBatches[p] + nCalls[p])

\* a turn was cancelled, and another ended on an Oracle failure, after a
\* batch of operations had been executed
C6_Witness ==
    \E p \in Procs :
        /\ cause[p] = "cancel"
        /\ nBatches[p] = 1
        /\ UserSaved(p)
        /\ Len(TurnMessages(p)) = 4

\* the file of the thread of p and the checkpoint of the thread
FileOf(p) == _load_messages_from_file(File(p))

\* the turn of p is the latest call of the run and has returned its answer
JustDone(p) == pc[p] = "done" /\ turn[p] = nTurns

\* C7 as stated: after a call on a thread whose history held k messages the
\* history holds k + 2 + N messages, N the number of batches executed
\* (read on the thread's file, or else on the thread's checkpoint).
C7_LengthWithBatches ==
    \A p \in Procs :
        JustDone(p) =>
            \/ Len(FileOf(p)) = Len(base[p]) + 2 + nBatches[p]
            \/ Len(checkpoint[tid[p]]) = Len(gbase[p]) + 2 + nBatches[p]

\* C7, amended: a call that runs with no other call in flight and returns
\* its answer has appended to the thread's file exactly the user message and
\* then the assistant message (k + 2 messages whatever N is); the N tool-call
\* messages and the tool messages, one per call, are appended only to the
\* thread's checkpoint, between the human message and the final answer.
C7_UserThenAssistant ==
    \A p \in Procs :
        JustDone(p) =>
            LET f == FileOf(p)
                k == Len(base[p])
                g == checkpoint[tid[p]]
                j == Len(gbase[p])
            IN
            /\ Len(f) = k + 2
            /\ SubSeq(f, 1, k) = base[p]
            /\ f[k + 1].message_type = "user" /\ f[k + 1].turn = turn[p]
            /\ f[k + 2].message_type = "assistant" /\ f[k + 2].turn = turn[p]
            /\ f[k + 2].content = resp[p]
            /\ Len(g) = j + 2 + nBatches[p] + nCalls[p]
            /\ SubSeq(g, 1, j) = gbase[p]
            /\ g[j + 1].role = "human"
            /\ Last(g).role = "ai" /\ Last(g).calls = << >>
            /\ \A i \in (j + 2)..(Len(g) - 1) :
                  g[i].role = "tool" \/ Len(g[i].calls) > 0

\* a call on a thread that already held the two messages of an earlier call
\* has executed a batch of two operations and returned its answer
C7_Witness ==
    \E p \in Procs :
        /\ JustDone(p)
        /\ Len(base[p]) = 2
        /\ nBatches[p] = 1 /\ nCalls[p] = 2
        /\ Len(FileOf(p)) = 4

\* C8: whenever the Oracle is about to be invoked, every batch requested in
\* this turn is followed in the history by exactly one tool message per
\* requested call, in the order of the requests, and by no other tool
\* message, also when the calls completed in another order.
C8_ResultsInRequestOrder ==
    \A p \in Procs :
        pc[p] = "supervisor" =>
            \A j \in DOMAIN gstate[p] :
                (gstate[p][j].turn = turn[p] /\ Len(gstate[p][j].calls) > 0) =>
                    LET n == Len(gstate[p][j].calls) IN
                    /\ j + n <= Len(gstate[p])
                    /\ \A i \in 1..n :
                          /\ gstate[p][j + i].role = "tool"
                          /\ gstate[p][j + i].idx = i
                          /\ gstate[p][j + i].name = gstate[p][j].calls[i]
                          /\ gstate[p][j + i].turn = turn[p]
                    /\ j + n < Len(gstate[p]) =>
                          gstate[p][j + n + 1].role # "tool"

\* the second call of a batch completed before the first one, and the
\* supervisor runs next
C8_Witness ==
    \E p \in Procs :
        /\ pc[p] = "supervisor"
        /\ finished[p] = <<2, 1>>
        /\ Last(gstate[p]).role = "tool" /\ Last(gstate[p]).idx = 2

\* no message was saved for a thread other than t
OnlyThread(t) == \A u \in ThreadIds \ {t} : appended[u] = << >>

\* C9: calls on one thread id are serialised: the stored history of the thread
\* holds every message that was saved for it, and every assistant message
\* directly follows the user message of its own turn.
C9_TurnsSerialized ==
    \A t \in ThreadIds :
        OnlyThread(t) =>
            LET f == _load_messages_from_file(_get_conversation_file_path(t)) IN
            /\ \A i \in DOMAIN appended[t] :
                  \E j \in DOMAIN f :
                      /\ f[j].turn = appended[t][i].turn
                      /\ f[j].message_type = appended[t][i].message_type
            /\ \A j \in DOMAIN f :
                  f[j].message_type = "assistant" =>
                      /\ j > 1
                      /\ f[j - 1].message_type = "user"
                      /\ f[j - 1].turn = f[j].turn

\* C10: when no two calls on one thread id overlapped, the history of every
\* thread id holds exactly the messages saved for that thread id, in the
\* order of the saves, and no message of another thread id.
C10_ThreadsDoNotInterfere ==
    ~overlap =>
        \A t \in ThreadIds :
            _load_messages_from_file(_get_conversation_file_path(t))
                = appended[t]

IsPrefix(a, b) == Len(a) <= Len(b) /\ SubSeq(b, 1, Len(a)) = a

\* what getHistory(t) returns in the current state
History(t) == MultiAgentSystem_get_all_conversation_messages(t)

\* C11: in every state reached by a sequence of appends, the history of a
\* thread holds the messages appended to the thread, each unchanged, in the
\* order of the appends whatever their timestamps are; every step leaves the
\* history it had as a prefix of the history it has; and a history request
\* returns that history.
C11_HistoryInAppendOrder ==
    /\ [](\A t \in ThreadIds :
            SelectSeq(History(t), LAMBDA m : m.thread_id = t) = appended[t])
    /\ [][/\ \A t \in ThreadIds : IsPrefix(History(t), History(t)')
          /\ hist' # hist => hist'.messages = History(hist'.thread_id)
         ]_vars

\* a history request returned three messages of its thread whose timestamps
\* are 2, 1, 1 in the order of the appends
C11_Witness ==
    /\ Len(hist.messages) = 3
    /\ \A i \in 1..3 : /\ hist.messages[i].thread_id = hist.thread_id
                       /\ hist.messages[i].turn = i
    /\ hist.messages[1].timestamp = 2
    /\ hist.messages[2].timestamp = 1
    /\ hist.messages[3].timestamp = 1

\* C12: a call of deleteThread marks the rows of the thread as deleted and
\* removes no message: the files are unchanged and no row leaves the logs
\* table.
C12_SoftDelete ==
    [][delres' # delres =>
          /\ files' = files
          /\ Len(logs') = Len(logs)
          /\ \A i \in DOMAIN logs' :
                logs'[i].thread_id = delres'.thread_id => logs'[i].is_deleted
      ]_vars

\* the messages the supervisor node passes to the Oracle after the system
\* message: state["messages"] of the graph run
OracleHistory(p) == gstate[p]

\* the thread id of the n-th call of process_message
ThreadOfTurn(n) ==
    logs[CHOOSE i \in DOMAIN logs :
            logs[i].turn = n /\ logs[i].message_type = "user"].thread_id

\* a graph message as the conversation store would hold it
StoreView(m) ==
    <<m.turn, CASE m.role = "human" -> "user"
                [] m.role = "ai" /\ m.calls = << >> -> "assistant"
                [] OTHER -> "tool">>

\* the messages of earlier turns in a list of messages
Earlier(msgs, n) == SelectSeq(msgs, LAMBDA m : m.turn # n)

\* C13 as stated: at every Oracle invocation of a run without concurrent
\* calls and with a single thread id, the messages of earlier turns in the
\* Oracle's history are the messages of earlier turns that getHistory
\* returns for the thread.
C13_OracleHistoryFromStore ==
    \A p \in Procs :
        (pc[p] = "supervisor" /\ ~concurrent /\ OnlyThread(tid[p])) =>
            LET o == Earlier(OracleHistory(p), turn[p])
                h == Earlier(History(tid[p]), turn[p])
            IN
            /\ Len(o) = Len(h)
            /\ \A i \in DOMAIN o :
                  StoreView(o[i]) = <<h[i].turn, h[i].message_type>>

\* C13, amended: at every Oracle invocation the history given to the Oracle
\* is the graph state checkpointed for the thread id when the run began,
\* then the new human message, then the tool-call and tool messages of this
\* turn; every message of it comes from a call on the same thread id; and
\* in a run without concurrent calls it is the thread's checkpoint.
C13_OracleHistoryFromCheckpoint ==
    /\ [](\A p \in Procs :
            pc[p] = "supervisor" =>
                LET o == OracleHistory(p)
                    j == Len(gbase[p])
                IN
                /\ Len(o) = j + 1 + nBatches[p] + nCalls[p]
                /\ SubSeq(o, 1, j) = gbase[p]
                /\ o[j + 1] = HumanMessage(turn[p])
                /\ \A i \in (j + 2)..Len(o) :
                      o[i].turn = turn[p] /\ StoreView(o[i])[2] = "tool"
                /\ \A i \in DOMAIN o : ThreadOfTurn(o[i].turn) = tid[p]
                /\ ~concurrent => checkpoint[tid[p]] = o)
    /\ [][\A p \in Procs :
            (pc[p] = "graph_begin" /\ pc'[p] = "supervisor") =>
                OracleHistory(p)' =
                    Append(checkpoint[tid[p]], HumanMessage(turn[p]))
         ]_vars

\* the Oracle is invoked for the second time in the second turn of a thread
\* whose first turn executed a batch: its history holds the tool messages of
\* both turns
C13_Witness ==
    \E p \in Procs :
        /\ pc[p] = "supervisor"
        /\ turn[p] = 2 /\ nBatches[p] = 1
        /\ \E i \in 1..Len(gbase[p]) : gbase[p][i].role = "tool"
        /\ Last(OracleHistory(p)).role = "tool"
        /\ Len(History(tid[p])) = 3

\* the half-open overlap test on two time ranges
Overlaps(a, b) == a.start < b.end /\ b.start < a.end

\* C14: when check_conflicts answers (neither the service nor the request
\* failed), the events it reports are exactly the events of the calendar
\* whose range overlaps the requested range, each reported once: "no
\* conflict" exactly when there is none, no event that only touches the
\* range at an endpoint, and the overlap test is symmetric.
C14_ConflictsAreOverlaps ==
    (calres.op = "check_conflicts" /\ calres.result.kind # "error") =>
        LET r == calres.request
            items == calres.result.items
            reported == { items[i] : i \in DOMAIN items }
        IN
        /\ reported = { e \in calres.calendar : Overlaps(e, r) }
        /\ Cardinality(reported) = Len(items)
        /\ calres.result.kind = "none" <=> reported = {}
        /\ \A e \in calres.calendar :
              /\ (e.end = r.start \/ e.start = r.end) => e \notin reported
              /\ Overlaps(e, r) <=> Overlaps(r, e)

\* the range 11:00-12:00 is checked on a calendar that holds an event ending
\* at 11:00 and an event over the whole working day: only the second one is
\* reported
C14_Witness ==
    /\ calres.op = "check_conflicts"
    /\ calres.request.start = At(4, 11, 0)
    /\ { e.id : e \in calres.calendar } = {1, 4}
    /\ calres.result.kind = "conflicts"
    /\ Len(calres.result.items) = 1
    /\ calres.result.items[1].id = 4

\* the half-hours of a time range, by their starts
HalfHours(a, b) == { x \in a..(b - 1) : (x - a) % 30 = 0 }

\* the instant x lies in one of the periods
InSome(x, periods) ==
    \E i \in DOMAIN periods : periods[i][1] <= x /\ x < periods[i][2]

\* C15: in a report of check_availability every half-hour of the open range
\* lies in a free period or in a busy period and never in both; the free
\* periods are non-empty, inside the open range, disjoint and in
\* chronological order; and without a busy period the open range is the one
\* free period.
C15_FreeBusyPartition ==
    (calres.op = "check_availability" /\ calres.result.kind = "report") =>
        LET o == calres.request
            start_dt == At(o.day, 0, 0) + o.from
            end_dt == At(o.day, 0, 0) + o.to
            busy == calres.result.busy
            free == calres.result.free
        IN
        /\ \A x \in HalfHours(start_dt, end_dt) :
              InSome(x, free) # InSome(x, busy)
        /\ \A i \in DOMAIN free :
              /\ free[i][1] < free[i][2]
              /\ start_dt <= free[i][1] /\ free[i][2] <= end_dt
        /\ \A i, j \in DOMAIN free : i < j => free[i][2] <= free[j][1]
        /\ busy = << >> => free = << <<start_dt, end_dt>> >>

\* the events of the calendar that overlap the request of a creation
Conflicting == { e \in calres.calendar : Overlaps(e, calres.request) }

CreateOps == {"create_event_with_conflict_check", "create_event"}

\* C16: create_event_with_conflict_check with force_create=False on a range
\* for which the conflict check found events answers with the conflict and
\* the events found, and the calendar holds the events it held before.
C16_ConflictBlocksCreate ==
    (/\ calres.op \in CreateOps
     /\ ~calres.force_create
     /\ calres.result.conflict_check.kind = "conflicts") =>
        /\ calres.result.kind = "conflict_detected"
        /\ { calres.result.conflict_check.items[i] :
               i \in DOMAIN calres.result.conflict_check.items } = Conflicting
        /\ events = calres.calendar

\* C17: when the conflict check found nothing or force_create is True, and
\* the insertion did not fail, the event is created and returned; the
\* answer carries the warning "created despite conflicts" exactly when the
\* conflict check found events.
C17_CreatesAndTags ==
    (/\ calres.op \in CreateOps
     /\ calres.result.conflict_check.kind = "none" \/ calres.force_create
     /\ calres.result.kind # "error") =>
        /\ calres.result.kind = "created"
        /\ Cardinality(events) = Cardinality(calres.calendar) + 1
        /\ calres.calendar \subseteq events
        /\ calres.result.warning
               <=> calres.result.conflict_check.kind = "conflicts"

SuggestOps == {"suggest_alternative_times", "suggest_optimal_time"}

\* the slots the search of the latest answer visits
VisitedSlots ==
    IF calres.op = "suggest_alternative_times"
    THEN AlternativeSlots(calres.start_date, calres.duration,
                          calres.days_ahead)
    ELSE OptimalSlots(calres.activity_type, calres.start_date,
                      calres.duration, 0, calres.days_ahead)

\* no event of the calendar of the latest answer overlaps the slot
FreeIn(slot) == \A e \in calres.calendar : ~Overlaps(e, slot)

\* C18: an answer of suggest_alternative_times or suggest_optimal_time holds
\* at most MaxSuggestions slots, every slot starts on a day with offset in
\* 0..days_ahead from the start date, and when no visited slot is free and
\* the service did not fail the answer is "none" with no slot.
C18_AtMostFiveWithinDays ==
    calres.op \in SuggestOps =>
        LET slots == calres.result.slots IN
        /\ Len(slots) <= MaxSuggestions
        /\ \A i \in DOMAIN slots :
              DateOf(slots[i].start) - calres.start_date
                  \in 0..calres.days_ahead
        /\ (calres.up /\ \A k \in DOMAIN VisitedSlots :
                             ~FreeIn(VisitedSlots[k]))
              => calres.result.kind = "none" /\ slots = << >>
        /\ calres.result.kind = "suggestions" <=> slots # << >>

\* a search over two days returned MaxSuggestions slots, one of them on the
\* last day, and left out a free slot
C18_Witness ==
    /\ calres.op \in SuggestOps
    /\ calres.days_ahead = 1
    /\ Len(calres.result.slots) = MaxSuggestions
    /\ \E i \in DOMAIN calres.result.slots :
          DateOf(calres.result.slots[i].start) = calres.start_date + 1
    /\ \E k \in DOMAIN VisitedSlots :
          /\ FreeIn(VisitedSlots[k])
          /\ \A i \in DOMAIN calres.result.slots :
                calres.result.slots[i].start # VisitedSlots[k].start

\* C19: no slot of an answer of suggest_alternative_times or
\* suggest_optimal_time overlaps an event the calendar held when the search
\* ran.
C19_SlotsAreFree ==
    calres.op \in SuggestOps =>
        \A i \in DOMAIN calres.result.slots :
            /\ FreeIn(calres.result.slots[i])
            /\ calres.result.slots[i].end
                   = calres.result.slots[i].start + calres.duration

\* a search returned slots and passed over a visited slot that an event of
\* the calendar overlaps
C19_Witness ==
    /\ calres.op \in SuggestOps
    /\ calres.result.slots # << >>
    /\ \E k \in DOMAIN VisitedSlots :
          /\ ~FreeIn(VisitedSlots[k])
          /\ \E i \in DOMAIN calres.result.slots :
                VisitedSlots[k].start < calres.result.slots[i].start

\* C20: no slot of an answer of suggest_alternative_times or
\* suggest_optimal_time starts before the time at which the search ran.
C20_NoPastSlots ==
    calres.op \in SuggestOps =>
        \A i \in DOMAIN calres.result.slots :
            calres.result.slots[i].start >= calres.at

\* the position at which the search of the latest answer visits the slot
Discovery(slot) ==
    CHOOSE k \in DOMAIN VisitedSlots : VisitedSlots[k].start = slot.start

\* C21: the slots of an answer of suggest_optimal_time are in order of
\* non-increasing score, and of two slots with the same score the one the
\* search visited first (day offset, then optimal range, then cursor) comes
\* first.
C21_SortedByScoreStable ==
    calres.op = "suggest_optimal_time" =>
        LET slots == calres.result.slots IN
        \A i, j \in DOMAIN slots :
            i < j =>
                /\ slots[i].productivity_score >= slots[j].productivity_score
                /\ slots[i].productivity_score = slots[j].productivity_score
                       => Discovery(slots[i]) < Discovery(slots[j])

\* an answer in which the sort moved a slot before a slot found earlier and
\* which holds two slots of the same score
C21_Witness ==
    /\ calres.op = "suggest_optimal_time"
    /\ \E i, j \in DOMAIN calres.result.slots :
          /\ i < j
          /\ Discovery(calres.result.slots[i])
                 > Discovery(calres.result.slots[j])
    /\ \E i, j \in DOMAIN calres.result.slots :
          /\ i < j
          /\ calres.result.slots[i].productivity_score
                 = calres.result.slots[j].productivity_score

\* C22: for a meeting and any one weekday, the score of a slot that starts
\* at 10:00 is strictly higher than the score of a slot that starts at 22:00.
C22_MorningMeetingBeatsNight ==
    (/\ calres.op = "calculate_productivity_score"
     /\ lower(calres.activity_type) = "meeting"
     /\ calres.hour = 10 /\ calres.minute = 0) =>
        calres.result > calculate_productivity_score(
                            At(0, 22, 0), calres.activity_type,
                            calres.weekday)

\* the score of a meeting at 10:00 on a Saturday is 10, that of a meeting at
\* 22:00 on a Saturday is 3
C22_Witness ==
    /\ calres.op = "calculate_productivity_score"
    /\ calres.activity_type = "meeting"
    /\ calres.hour = 10 /\ calres.minute = 0 /\ calres.weekday = 5
    /\ calres.result = 10
    /\ calculate_productivity_score(At(0, 22, 0), "meeting", 5) = 3

\* +3 in [9,11], +2 in [14,16], -2 below 9 or above 17
timeOfDayBonus(hour) ==
    CASE hour \in 9..11 -> 3
      [] hour \in 14..16 -> 2
      [] hour < 9 \/ hour > 17 -> -2
      [] OTHER -> 0

\* the hours of the ideal sub-window of an activity type and its bonus; the
\* activity types the scoring does not name have no such window
IdealHours(activity_type) ==
    CASE lower(activity_type) \in {"meeting", "họp"} -> {10, 11, 13, 14, 15}
      [] lower(activity_type) \in {"focus work", "coding"} -> 9..11
      [] lower(activity_type) = "creative work" -> 10..12
      [] OTHER -> {}

activityBonus(hour, activity_type) ==
    IF hour \notin IdealHours(activity_type) THEN 0
    ELSE IF lower(activity_type) \in {"focus work", "coding"} THEN 3 ELSE 2

weekdayBonus(wd) == IF wd \in 0..4 THEN 1 ELSE 0

clamp(lo, hi, x) == IF x < lo THEN lo ELSE IF x > hi THEN hi ELSE x

\* C27: for every start hour, activity type and weekday the score is an
\* integer in 1..10 equal to clamp(1, 10, 5 + timeOfDayBonus +
\* activityBonus + weekdayBonus), the activity bonus being 2 or 3 inside
\* the activity's ideal hours and 0 outside.
C27_ScoreFormula ==
    calres.op = "calculate_productivity_score" =>
        /\ calres.result \in 1..10
        /\ calres.result =
               clamp(1, 10, 5 + timeOfDayBonus(calres.hour)
                              + activityBonus(calres.hour,
                                              calres.activity_type)
                              + weekdayBonus(calres.weekday))

\* coding at 10:30 on a Monday: 5 + 3 + 3 + 1 is clamped to 10
C27_Witness ==
    /\ calres.op = "calculate_productivity_score"
    /\ calres.activity_type = "coding"
    /\ calres.hour = 10 /\ calres.minute = 30 /\ calres.weekday = 0
    /\ 5 + timeOfDayBonus(10) + activityBonus(10, "coding")
         + weekdayBonus(0) = 12
    /\ calres.result = 10

\* the names suggest_optimal_time accepts for a meeting, a focus or an admin
\* activity
WorkActivityNames ==
    {"meeting", "họp", "cuộc họp", "team meeting", "client meeting",
     "focus work", "deep work", "coding", "writing", "analysis",
     "admin", "email", "routine", "administrative"}

\* C23: for an activity type that is one of the accepted names of a meeting,
\* focus or admin activity, no slot of an answer of suggest_optimal_time
\* falls on a Saturday or a Sunday.
C23_NoWeekendForWorkActivities ==
    (/\ calres.op = "suggest_optimal_time"
     /\ lower(calres.activity_type) \in WorkActivityNames) =>
        \A i \in DOMAIN calres.result.slots :
            weekday(DateOf(calres.result.slots[i].start)) < 5

\* the operations invoked in a run
Invoked(run) ==
    UNION { { run[i][j] : j \in DOMAIN run[i] } : i \in DOMAIN run }

\* C24: when at least one operation was invoked in the turn, the label is
\* the category of an invoked operation; when none was invoked, the label is
\* the one the keywords of the answer give, and the supervisor's own name
\* only when no keyword matches.
C24_TagFromInvokedOperation ==
    calres.op = "agent_name" =>
        IF Invoked(calres.run) # {}
        THEN calres.result \in { ToolCategory(name) :
                                   name \in Invoked(calres.run) }
        ELSE calres.result = KeywordTag(calres.answer)

\* the messages the turn of p produced, out of the result of its graph run
OwnMessages(p) == SelectSeq(gstate[p], LAMBDA m : m.turn = turn[p])

\* C25: the label saved with the answer of a turn is the label of the
\* messages that turn produced, whatever earlier turns of the thread
\* invoked (runs without concurrent calls).
C25_TagFromTurnMessagesOnly ==
    \A p \in Procs : \A i \in DOMAIN logs :
        (/\ ~concurrent
         /\ pc[p] \in {"asst_load", "asst_write", "done"}
         /\ logs[i].turn = turn[p]
         /\ logs[i].message_type = "assistant") =>
            logs[i].agent_name = AgentName(OwnMessages(p))

\* the slots of the days 0..days_ahead from the start date at the hours
\* 9, 10, 11, 14, 15, 16 that no event of the calendar overlaps
FreeCandidates ==
    { c \in { [start |-> At(calres.start_date + d, h, 0),
               end |-> At(calres.start_date + d, h, 0) + calres.duration] :
                 d \in 0..calres.days_ahead, h \in {9, 10, 11, 14, 15, 16} } :
        FreeIn(c) }

\* C26: an answer of suggest_alternative_times holds the first free slots,
\* at most MaxSuggestions, of the scan over the days 0..days_ahead (outside)
\* and the hours 9, 10, 11, 14, 15, 16 (inside), each lasting the duration
\* asked for, in the order found: the slots are free candidates in ascending
\* order of time, all free candidates if these are fewer than
\* MaxSuggestions, and no free candidate before a returned slot is left out.
C26_FirstFreeSlotsInScanOrder ==
    (calres.op = "suggest_alternative_times" /\ calres.up) =>
        LET slots == calres.result.slots
            returned == { slots[i] : i \in DOMAIN slots }
        IN
        /\ returned \subseteq FreeCandidates
        /\ \A i, j \in DOMAIN slots : i < j => slots[i].start < slots[j].start
        /\ Len(slots) = IF Cardinality(FreeCandidates) < MaxSuggestions
                        THEN Cardinality(FreeCandidates)
                        ELSE MaxSuggestions
        /\ \A c \in FreeCandidates :
              (\E r \in returned : c.start < r.start) => c \in returned

\* a search over two days passed over a busy candidate of the first day,
\* returned slots of both days and left out a later free candidate
C26_Witness ==
    /\ calres.op = "suggest_alternative_times" /\ calres.up
    /\ calres.days_ahead >= 1
    /\ Len(calres.result.slots) = MaxSuggestions
    /\ DateOf(calres.result.slots[1].start) = calres.start_date
    /\ DateOf(calres.result.slots[MaxSuggestions].start) > calres.start_date
    /\ \E k \in DOMAIN VisitedSlots :
          /\ ~FreeIn(VisitedSlots[k])
          /\ VisitedSlots[k].start < calres.result.slots[MaxSuggestions].start
    /\ \E c \in FreeCandidates :
          c.start > calres.result.slots[MaxSuggestions].start

\* C28: get_chat_history(thread_id, limit) on a thread that holds more than
\* limit messages returns the limit most recent messages of the thread, in
\* the order in which the thread holds them.
C28_MostRecentMessages ==
    (/\ calres.op = "get_chat_history"
     /\ Len(calres.stored) > calres.limit) =>
        calres.result = SubSeq(calres.stored,
                               Len(calres.stored) - calres.limit + 1,
                               Len(calres.stored))

\* C29: a call of deleteThread on a thread that holds saved messages returns
\* True, marks the thread's rows of the logs table as deleted, removes the
\* thread's messages from the per-conversation storage, and afterwards the
\* history of the thread holds none of the messages saved before.
C29_DeleteThreadDeletes ==
    [][\A t \in ThreadIds :
          (/\ delres' # delres
           /\ delres'.thread_id = t
           /\ appended[t] # << >>) =>
              /\ delres'.returned = "True"
              /\ \A i \in DOMAIN logs' :
                    logs'[i].thread_id = t => logs'[i].is_deleted
              /\ _load_messages_from_file(_get_conversation_file_path(t))'
                     = << >>
              /\ \A i \in DOMAIN History(t)' :
                    \A j \in DOMAIN appended[t] :
                        History(t)'[i] # appended[t][j]
      ]_vars

\* C30: create_event_with_conflict_check answers with a conflict, or tags a
\* created event as created despite conflicts, only when the conflict check
\* found an event; when the conflict check failed and force_create is
\* False the answer is an error.
C30_CheckFailureIsNotAConflict ==
    calres.op \in CreateOps =>
        LET found == calres.result.conflict_check.kind = "conflicts" IN
        /\ calres.result.kind = "conflict_detected" => found
        /\ (calres.result.kind = "created" /\ calres.result.warning) => found
        /\ (calres.result.conflict_check.kind = "error"
              /\ ~calres.force_create) => calres.result.kind = "error"

====
